---- MODULE Spec2Model ----
(***************************************************************************)
(* Model of core/registry/bootstrap.go: the two bootstrap operations       *)
(* RegisterMicroservice and RegisterMicroserviceInstances, the process-wide *)
(* runtime identity they write, the package variables InstanceEndpoints and *)
(* microServiceDependencies, and the self-instance cache.                   *)
(*                                                                         *)
(* The configuration the code reads is global state, set before the        *)
(* bootstrap starts.  The Registrator and the discovery service are        *)
(* external: every answer they give is an input chosen with \E at the step *)
(* that asks for it.  Each invocation runs in a slot p; its position is    *)
(* pc[p] and its Go locals are the functions sid, instanceID, instanceIDs, *)
(* microservice, microServiceInstance.  The lists of instance IDs are Go   *)
(* slices: views of backing arrays, which the cache and the invocations    *)
(* share.                                                                  *)
(***************************************************************************)
EXTENDS Integers, Sequences, FiniteSets, TLC

(***************************************************************************)
(* Bounds                                                                  *)
(***************************************************************************)
NProc == 2
MaxCalls == 2
\* invocations explored when registrations repeat and overlap
MaxRegistrations == 6

Procs == 1..NProc

(***************************************************************************)
(* Values                                                                  *)
(***************************************************************************)
\* Go maps: a nil map and an allocated map are told apart (lines 39, 127, 154)
NilMap == [nil |-> TRUE, kv |-> <<>>]
MakeMap(f) == [nil |-> FALSE, kv |-> f]
EmptyMap == MakeMap(<<>>)
MapHas(m, k, v) == k \in DOMAIN m.kv /\ m.kv[k] = v
MapPut(m, k, v) == MakeMap([x \in (DOMAIN m.kv) \cup {k} |-> IF x = k THEN v ELSE m.kv[x]])

\* common.ScopeFull, common.TRUE, common.FALSE, common.DefaultStatus, common.DefaultLevel
ScopeFull == "full"
TRUEStr == "true"
FALSEStr == "false"
DefaultStatus == "UP"
DefaultLevel == "BACK"
\* runtime.StatusRunning
StatusRunning == "RUNNING"

\* runtime.App, runtime.HostName, config.NodeIP and the static service description
App == "app1"
HostName == "host1"
NodeIP == "10.0.0.7"
\* service.ServiceDescription.Name
ServiceNames == {"svcA", "svcB"}
ServiceVersion == "1.0"
ServiceEnvironment == ""
ServicePaths == << [Path |-> "/a", Property |-> ("checksession" :> "false")] >>
FrameworkName == "Go-Chassis"
FrameworkVersion == "v1"
FrameworkRegister == "SDK"

\* identifiers the external services may hand back; "" is the empty identifier
ServiceIDs == {"", "s1", "s2"}
InstanceIDs == {"i1", "i2"}
\* the identifiers in a fixed order, for the runs in which many are handed out
InstanceIDPool == <<"i1", "i2", "i3", "i4", "i5", "i6", "i7">>
Scopes == {ScopeFull, "app"}
\* results of schema.GetSchemaIDs: an error, or a list of schema IDs
SchemaResults == { [err |-> TRUE, ids |-> <<>>],
                   [err |-> FALSE, ids |-> <<>>],
                   [err |-> FALSE, ids |-> <<"sch1", "sch2">>] }
\* config.GlobalDefinition.Cse.Protocols: protocol name -> listen address
ValidAddresses == {"127.0.0.1:8080"}
ProtocolLists == { <<>>, ("rest" :> "127.0.0.1:8080"), ("rest" :> "127.0.0.1") }
\* config.GlobalDefinition.DataCenter.Name / .AvailableZone
DataCenterNames == {"", "dc1"}
AvailableZones == {"", "az1"}
\* a region configured next to them; the code does not read it
DataCenterRegions == {"region1"}
\* service.ServiceDescription.InstanceProperties
InstancePropertiesValues == {NilMap, MakeMap(("tag" :> "blue"))}
\* values the caller may have stored in InstanceEndpoints before the bootstrap
EndpointOverrides == {NilMap, MakeMap(("highway" :> "10.0.0.7:9090"))}

\* what an external call answers: an identifier, or an error with no identifier
Answers(ids) == {[err |-> FALSE, id |-> i] : i \in ids} \cup {[err |-> TRUE, id |-> ""]}

\* return values of the two operations
OK == "nil"
ErrRegisterService == "errRegisterService"
ErrEmptyServiceID == "errEmptyServiceIDFromRegistry"
ErrDiscovery == "errGetMicroServiceID"
ErrEndpointMap == "errMakeEndpointMap"
ErrRegisterInstance == "errRegisterServiceInstance"
ErrUpdateProperties == "errUpdateMicroServiceInstanceProperties"
\* errors the code receives and does not return
ErrGetSchemaIDs == "errGetSchemaIDs"
ErrAddSchemas == "errAddSchemas"

OpNone == "none"
OpService == "RegisterMicroservice"
OpInstance == "RegisterMicroserviceInstances"

\* one interaction of an invocation with a collaborator or with the cache
Event(call, s, arg, ok) == [call |-> call, sid |-> s, arg |-> arg, ok |-> ok]

(***************************************************************************)
(* Pure parts of the two operations                                        *)
(***************************************************************************)
\* MakeEndpointMap: protocol list -> (endpoint map, error)
MakeEndpointMap(protocols) ==
    IF \E n \in DOMAIN protocols : protocols[n] \notin ValidAddresses
    THEN [err |-> TRUE, eps |-> NilMap]
    ELSE [err |-> FALSE, eps |-> MakeMap(protocols)]

\* bootstrap.go:127-129
ChooseEndpoints(eps, override) == IF ~override.nil THEN override ELSE eps

DataCenterInfo(name, region, az) ==
    [present |-> TRUE, Name |-> name, Region |-> region, AvailableZone |-> az]
NoDataCenterInfo == [present |-> FALSE, Name |-> "", Region |-> "", AvailableZone |-> ""]

MutDataCenterInfoFor(name, az) ==
    IF name # "" \/ az # "" THEN DataCenterInfo(name, name, az) ELSE NoDataCenterInfo
MutRegionDataCenterInfoFor(name, az) ==
    IF name # "" /\ az # ""
    THEN DataCenterInfo(name, CHOOSE r \in DataCenterRegions : TRUE, az)
    ELSE NoDataCenterInfo
\* bootstrap.go:138-144
DataCenterInfoFor(name, az) ==
    IF name # "" /\ az # "" THEN DataCenterInfo(name, name, az) ELSE NoDataCenterInfo

\* bootstrap.go:131-144: ServiceID is not assigned, it keeps Go's zero value
NewMicroServiceInstance(eps, dcName, az) ==
    [ ServiceID |-> "",
      EndpointsMap |-> eps,
      HostName |-> HostName,
      Status |-> DefaultStatus,
      Metadata |-> MakeMap(("nodeIP" :> NodeIP)),
      DataCenterInfo |-> DataCenterInfoFor(dcName, az) ]
NoMicroServiceInstance ==
    [ ServiceID |-> "", EndpointsMap |-> NilMap, HostName |-> "", Status |-> "",
      Metadata |-> NilMap, DataCenterInfo |-> NoDataCenterInfo ]

\* A []string is a slice: the first len elements of the backing array arr.
\* arr = 0 is the nil slice.  heap maps each backing array to its contents,
\* one element per unit of capacity; an unused element is Go's zero string.
NilSlice == [arr |-> 0, len |-> 0]
\* cap(s)
Cap(heap, s) == IF s.arr = 0 THEN 0 ELSE Len(heap[s.arr])
\* the list a slice shows
Elems(heap, s) == [i \in 1..s.len |-> heap[s.arr][i]]

\* the capacity append gives the array it allocates for one more element:
\* the Go runtime doubles a small slice (1, 2, 4, 8, ...)
GrowCap(cap) == IF cap = 0 THEN 1 ELSE cap + cap
\* the array append allocates: the first one not in use
NewArray(heap) ==
    CHOOSE a \in 1..(Cardinality(DOMAIN heap) + 1) :
        /\ a \notin DOMAIN heap
        /\ \A b \in 1..(a - 1) : b \in DOMAIN heap

\* append(s, id), bootstrap.go:171: with spare capacity the element is
\* written into the backing array s shares with every other slice of it;
\* without, the elements are copied to a new array
AppendSlice(heap, s, id) ==
    IF s.len < Cap(heap, s)
    THEN [ heap |-> [heap EXCEPT ![s.arr][s.len + 1] = id],
           slice |-> [arr |-> s.arr, len |-> s.len + 1] ]
    ELSE LET a == NewArray(heap)
             copy == [i \in 1..GrowCap(Cap(heap, s)) |->
                         IF i <= s.len THEN heap[s.arr][i]
                         ELSE IF i = s.len + 1 THEN id ELSE ""]
         IN [ heap |-> (a :> copy) @@ heap,
              slice |-> [arr |-> a, len |-> s.len + 1] ]

\* the garbage collector: arrays no slice in refs points to are gone
Collect(heap, refs) == [a \in (DOMAIN heap) \cap refs |-> heap[a]]

\* bootstrap.go:164-169: the loop that sets isRepeat
IsRepeat(list, id) == \E i \in 1..Len(list) : list[i] = id
\* bootstrap.go:164-172 on the value of the list
AppendIfAbsent(list, id) == IF IsRepeat(list, id) THEN list ELSE Append(list, id)

\* SelfInstancesCache.Get followed by the checked type assertion (162-163):
\* the slice stored under key, or the nil slice
CacheGet(cache, key) == IF key \in DOMAIN cache THEN cache[key] ELSE NilSlice
MutCacheSet(cache, key, value) == cache
\* SelfInstancesCache.Set(key, value, 0): the cache keeps the slice it is
\* given, not a copy of its elements
CacheSet(cache, key, value) ==
    [k \in (DOMAIN cache) \cup {key} |-> IF k = key THEN value ELSE cache[k]]

MutAllowCrossAppMetadata(scope) ==
    IF scope = ScopeFull THEN MakeMap(("allowCrossApp" :> TRUEStr))
    ELSE MakeMap(("allowCrossApp" :> FALSEStr))
\* bootstrap.go:67, 78-83: the descriptor's metadata
AllowCrossAppMetadata(scope) ==
    IF scope = ScopeFull THEN MakeMap(("allowCrossApp" :> TRUEStr)) ELSE EmptyMap

\* bootstrap.go:39-41, 78-83: the configured service properties
AllowCrossAppProperties(props, scope) ==
    MapPut(props, "allowCrossApp", IF scope = ScopeFull THEN TRUEStr ELSE FALSEStr)

MutAlias(alias, appID, serviceName) ==
    IF Len(alias) = 0 THEN serviceName ELSE alias
\* bootstrap.go:72-77
Alias(alias, appID, serviceName) ==
    IF Len(alias) = 0 THEN appID \o ":" \o serviceName ELSE alias

\* bootstrap.go:44-51
RegPaths(svcPaths) ==
    [i \in 1..Len(svcPaths) |-> [Path |-> svcPaths[i].Path, Property |-> svcPaths[i].Property]]

\* bootstrap.go:52-83
NewMicroService(serviceID, name, level, schemaIDs, scope) ==
    [ ServiceID |-> serviceID,
      AppID |-> App,
      ServiceName |-> name,
      Version |-> ServiceVersion,
      Paths |-> RegPaths(ServicePaths),
      Environment |-> ServiceEnvironment,
      Status |-> DefaultStatus,
      Level |-> level,
      Schemas |-> schemaIDs,
      Framework |-> [Version |-> FrameworkVersion, Name |-> FrameworkName],
      RegisterBy |-> FrameworkRegister,
      Metadata |-> AllowCrossAppMetadata(scope),
      Alias |-> Alias("", App, name) ]
NoMicroService ==
    [ ServiceID |-> "", AppID |-> "", ServiceName |-> "", Version |-> "", Paths |-> <<>>,
      Environment |-> "", Status |-> "", Level |-> "", Schemas |-> <<>>,
      Framework |-> [Version |-> "", Name |-> ""], RegisterBy |-> "",
      Metadata |-> NilMap, Alias |-> "" ]

MutRegisterServiceResult(err, rsid) == IF err THEN ErrRegisterService ELSE OK
\* bootstrap.go:88-96: what RegisterMicroservice makes of RegisterService's answer
RegisterServiceResult(err, rsid) ==
    IF err THEN ErrRegisterService
    ELSE IF rsid = "" THEN ErrEmptyServiceID
    ELSE OK

MutServiceIDAfterRegister(res, old, rsid) == IF res # ErrRegisterService THEN rsid ELSE old
\* bootstrap.go:89-97: runtime.ServiceID is assigned after both checks
ServiceIDAfterRegister(res, old, rsid) == IF res = OK THEN rsid ELSE old

MutDiscoveryResult(err) == OK
\* bootstrap.go:114-121
DiscoveryResult(err) == IF err THEN ErrDiscovery ELSE OK

MutRegisterInstanceResult(err) == OK
\* bootstrap.go:146-150
RegisterInstanceResult(err) == IF err THEN ErrRegisterInstance ELSE OK

MutUpdatePropertiesResult(err) == OK
\* bootstrap.go:155-158
UpdatePropertiesResult(err) == IF err THEN ErrUpdateProperties ELSE OK

MutSchemaErrorResult(err) == IF err THEN ErrGetSchemaIDs ELSE OK
\* bootstrap.go:31-35: a failed schema lookup is logged and not returned
SchemaErrorResult(err) == OK

\* bootstrap.go:31-35: the schema set the descriptor and the loop at 100 use
DiscoveredSchemas(res) == IF res.err THEN <<>> ELSE res.ids

MutSchemaAt(schemas, i) == schemas[1]
\* bootstrap.go:100: the schema ID of the i-th iteration
SchemaAt(schemas, i) == schemas[i]

MutAddSchemasServiceID(localSid, descriptorSid) == descriptorSid
\* bootstrap.go:102: AddSchemas is given the local sid, not microservice.ServiceID
AddSchemasServiceID(localSid, descriptorSid) == localSid

MutAddSchemasResult(ok) == IF ok THEN OK ELSE ErrAddSchemas
\* bootstrap.go:102: the error AddSchemas returns is not looked at
AddSchemasResult(ok) == OK

MutServiceIDAfterDiscovery(old, dsid) == dsid
\* bootstrap.go:114: the discovered ID goes to the local sid; runtime.ServiceID
\* is not assigned anywhere in RegisterMicroserviceInstances
ServiceIDAfterDiscovery(old, dsid) == old

(***************************************************************************)
(* State                                                                   *)
(***************************************************************************)
VARIABLES
    runtimeServiceID,         \* runtime.ServiceID
    runtimeInstanceID,        \* runtime.InstanceID
    runtimeInstanceStatus,    \* runtime.InstanceStatus
    InstanceEndpoints,        \* package variable, bootstrap.go:20
    microServiceDependencies, \* package variable, bootstrap.go:17
    ServiceDescription,       \* config.MicroserviceDefinition.ServiceDescription
    GlobalDefinition,         \* config.GlobalDefinition: protocols and datacenter
    RegistratorScope,         \* what config.GetRegistratorScope() returns
    schemaIDs,                \* what schema.GetSchemaIDs(name) returns
    SelfInstancesCache,       \* service ID -> slice of instance IDs
    backing,                  \* the backing arrays of those slices
    pc,                       \* position of the invocation in slot p
    op,                       \* which operation slot p runs
    ret,                      \* its return value once pc[p] = "done"
    sid,                      \* local sid
    instanceID,               \* local instanceID
    instanceIDs,              \* local instanceIDs
    microservice,             \* local microservice (the descriptor)
    microServiceInstance,     \* local microServiceInstance (the descriptor)
    schemaIdx,                \* position of the loop at line 100
    rangeIdx,                 \* position of the loop at line 165
    isRepeat,                 \* local isRepeat
    trace,                    \* calls the invocation has issued so far
    pre,                      \* runtime identity when the latest invocation started
    ncalls,                   \* invocations started so far
    serviceRegistered,        \* some RegisterMicroservice has returned nil
    received                  \* service ID -> instance IDs of the calls that returned nil

configuration == <<GlobalDefinition, RegistratorScope, schemaIDs, InstanceEndpoints>>
globals == <<runtimeServiceID, runtimeInstanceID, runtimeInstanceStatus, configuration,
             microServiceDependencies, ServiceDescription, SelfInstancesCache,
             backing>>
locals == <<sid, instanceID, instanceIDs, microservice, microServiceInstance, schemaIdx,
            rangeIdx, isRepeat>>
vars == <<globals, locals, pc, op, ret, trace, pre, ncalls, serviceRegistered, received>>

Init ==
    /\ runtimeServiceID = ""
    /\ runtimeInstanceID = ""
    /\ runtimeInstanceStatus = ""
    /\ InstanceEndpoints \in EndpointOverrides
    /\ GlobalDefinition \in [Protocols : ProtocolLists,
                             DataCenter : [Name : DataCenterNames,
                                           Region : DataCenterRegions,
                                           AvailableZone : AvailableZones]]
    /\ RegistratorScope \in Scopes
    /\ schemaIDs \in SchemaResults
    /\ microServiceDependencies = "nil"
    /\ ServiceDescription \in [Name : ServiceNames, Level : {""}, Properties : {NilMap},
                               InstanceProperties : InstancePropertiesValues]
    /\ SelfInstancesCache = <<>>
    /\ backing = <<>>
    /\ pc = [p \in Procs |-> "idle"]
    /\ op = [p \in Procs |-> OpNone]
    /\ ret = [p \in Procs |-> OK]
    /\ sid = [p \in Procs |-> ""]
    /\ instanceID = [p \in Procs |-> ""]
    /\ instanceIDs = [p \in Procs |-> NilSlice]
    /\ microservice = [p \in Procs |-> NoMicroService]
    /\ microServiceInstance = [p \in Procs |-> NoMicroServiceInstance]
    /\ schemaIdx = [p \in Procs |-> 1]
    /\ rangeIdx = [p \in Procs |-> 1]
    /\ isRepeat = [p \in Procs |-> FALSE]
    /\ trace = [p \in Procs |-> <<>>]
    /\ pre = [ServiceID |-> "", InstanceID |-> "", InstanceStatus |-> ""]
    /\ ncalls = 0
    /\ serviceRegistered = FALSE
    /\ received = <<>>

RuntimeNow ==
    [ServiceID |-> runtimeServiceID, InstanceID |-> runtimeInstanceID,
     InstanceStatus |-> runtimeInstanceStatus]

\* slot p leaves the operation with return value r
Finish(p, r) ==
    /\ pc' = [pc EXCEPT ![p] = "done"]
    /\ ret' = [ret EXCEPT ![p] = r]

Goto(p, label) ==
    /\ pc' = [pc EXCEPT ![p] = label]
    /\ UNCHANGED ret

Log(p, e) == trace' = [trace EXCEPT ![p] = Append(@, e)]

\* no other invocation is in progress
Quiet(p) == \A q \in Procs \ {p} : pc[q] = "idle"

(***************************************************************************)
(* RegisterMicroservice, bootstrap.go:23-106                               *)
(***************************************************************************)
\* the caller enters RegisterMicroservice
CallRegisterMicroservice(p) ==
    /\ pc[p] = "idle"
    /\ ncalls' = ncalls + 1
    /\ pc' = [pc EXCEPT ![p] = "rm_build"]
    /\ op' = [op EXCEPT ![p] = OpService]
    /\ pre' = RuntimeNow
    /\ UNCHANGED <<globals, locals, ret, trace, serviceRegistered, received>>

\* lines 24-86: defaults, descriptor, visibility policy
BuildMicroService(p) ==
    /\ pc[p] = "rm_build"
    /\ microServiceDependencies' = "empty"
    /\ LET ids == DiscoveredSchemas(schemaIDs)
           level == IF ServiceDescription.Level = "" THEN DefaultLevel
                    ELSE ServiceDescription.Level
           props == IF ServiceDescription.Properties.nil THEN EmptyMap
                    ELSE ServiceDescription.Properties
       IN /\ ServiceDescription' =
                [ServiceDescription EXCEPT
                    !.Level = level,
                    !.Properties = AllowCrossAppProperties(props, RegistratorScope)]
          /\ microservice' = [microservice EXCEPT
                                ![p] = NewMicroService(runtimeServiceID,
                                                       ServiceDescription.Name, level,
                                                       ids, RegistratorScope)]
    /\ IF SchemaErrorResult(schemaIDs.err) = OK
       THEN Goto(p, "rm_register")
       ELSE Finish(p, SchemaErrorResult(schemaIDs.err))
    /\ UNCHANGED <<runtimeServiceID, runtimeInstanceID, runtimeInstanceStatus,
                   configuration, SelfInstancesCache, backing, sid, instanceID, instanceIDs,
                   microServiceInstance, schemaIdx, rangeIdx, isRepeat, op, trace, pre, ncalls,
                   serviceRegistered, received>>

\* lines 88-98: DefaultRegistrator.RegisterService answers (rsid, err)
RegisterService(p, err, rsid) ==
    /\ pc[p] = "rm_register"
    /\ Log(p, Event("RegisterService", "", rsid, ~err))
    /\ LET res == RegisterServiceResult(err, rsid)
       IN /\ runtimeServiceID' = ServiceIDAfterRegister(res, runtimeServiceID, rsid)
          /\ IF res = OK
             THEN /\ sid' = [sid EXCEPT ![p] = rsid]
                  /\ schemaIdx' = [schemaIdx EXCEPT ![p] = 1]
                  /\ Goto(p, "rm_schemas")
             ELSE /\ Finish(p, res)
                  /\ UNCHANGED <<sid, schemaIdx>>
    /\ UNCHANGED <<runtimeInstanceID, runtimeInstanceStatus, configuration,
                   microServiceDependencies, ServiceDescription, SelfInstancesCache, backing,
                   instanceID, instanceIDs, microservice, microServiceInstance,
                   rangeIdx, isRepeat, op, pre, ncalls, serviceRegistered, received>>

\* lines 100-103: one iteration; AddSchemas' result is dropped
AddSchemas(p, ok) ==
    /\ pc[p] = "rm_schemas"
    /\ schemaIdx[p] <= Len(microservice[p].Schemas)
    /\ Log(p, Event("AddSchemas",
                    AddSchemasServiceID(sid[p], microservice[p].ServiceID),
                    SchemaAt(microservice[p].Schemas, schemaIdx[p]), ok))
    /\ schemaIdx' = [schemaIdx EXCEPT ![p] = @ + 1]
    /\ IF AddSchemasResult(ok) = OK
       THEN UNCHANGED <<pc, ret>>
       ELSE Finish(p, AddSchemasResult(ok))
    /\ UNCHANGED <<globals, sid, instanceID, instanceIDs, microservice,
                   microServiceInstance, rangeIdx, isRepeat, op, pre, ncalls,
                   serviceRegistered, received>>

\* line 105
ReturnRegisterMicroservice(p) ==
    /\ pc[p] = "rm_schemas"
    /\ schemaIdx[p] > Len(microservice[p].Schemas)
    /\ Finish(p, OK)
    /\ serviceRegistered' = TRUE
    /\ UNCHANGED <<globals, locals, op, trace, pre, ncalls, received>>

(***************************************************************************)
(* RegisterMicroserviceInstances, bootstrap.go:109-176                     *)
(***************************************************************************)
\* the caller enters RegisterMicroserviceInstances
CallRegisterMicroserviceInstances(p) ==
    /\ pc[p] = "idle"
    /\ ncalls' = ncalls + 1
    /\ pc' = [pc EXCEPT ![p] = "rmi_discover"]
    /\ op' = [op EXCEPT ![p] = OpInstance]
    /\ pre' = RuntimeNow
    /\ UNCHANGED <<globals, locals, ret, trace, serviceRegistered, received>>

\* lines 114-121: DefaultServiceDiscoveryService.GetMicroServiceID answers (dsid, err)
GetMicroServiceID(p, err, dsid) ==
    /\ pc[p] = "rmi_discover"
    /\ Log(p, Event("GetMicroServiceID", "", dsid, ~err))
    /\ LET res == DiscoveryResult(err)
       IN IF res = OK
          THEN /\ sid' = [sid EXCEPT ![p] = dsid]
               /\ runtimeServiceID' = ServiceIDAfterDiscovery(runtimeServiceID, dsid)
               /\ Goto(p, "rmi_build")
          ELSE /\ Finish(p, res)
               /\ UNCHANGED <<sid, runtimeServiceID>>
    /\ UNCHANGED <<runtimeInstanceID, runtimeInstanceStatus, configuration,
                   microServiceDependencies, ServiceDescription, SelfInstancesCache, backing,
                   instanceID, instanceIDs, microservice, microServiceInstance,
                   schemaIdx, rangeIdx, isRepeat, op, pre, ncalls, serviceRegistered, received>>

\* lines 122-144: endpoint map, override, descriptor, datacenter
BuildInstance(p) ==
    /\ pc[p] = "rmi_build"
    /\ LET m == MakeEndpointMap(GlobalDefinition.Protocols)
       IN IF m.err
          THEN /\ Finish(p, ErrEndpointMap)
               /\ UNCHANGED microServiceInstance
          ELSE /\ microServiceInstance' =
                     [microServiceInstance EXCEPT
                        ![p] = NewMicroServiceInstance(
                                  ChooseEndpoints(m.eps, InstanceEndpoints),
                                  GlobalDefinition.DataCenter.Name,
                                  GlobalDefinition.DataCenter.AvailableZone)]
               /\ Goto(p, "rmi_register")
    /\ UNCHANGED <<globals, sid, instanceID, instanceIDs, microservice, schemaIdx,
                   rangeIdx, isRepeat, op, trace, pre, ncalls, serviceRegistered,
                   received>>

\* lines 146-153: DefaultRegistrator.RegisterServiceInstance answers (iid, err)
RegisterServiceInstance(p, err, iid) ==
    /\ pc[p] = "rmi_register"
    /\ Log(p, Event("RegisterServiceInstance", sid[p], iid, ~err))
    /\ LET res == RegisterInstanceResult(err)
       IN IF res = OK
          THEN /\ instanceID' = [instanceID EXCEPT ![p] = iid]
               /\ runtimeInstanceID' = iid
               /\ runtimeInstanceStatus' = StatusRunning
               /\ Goto(p, "rmi_props")
          ELSE /\ Finish(p, res)
               /\ UNCHANGED <<instanceID, runtimeInstanceID, runtimeInstanceStatus>>
    /\ UNCHANGED <<runtimeServiceID, configuration, microServiceDependencies,
                   ServiceDescription, SelfInstancesCache, backing, sid, instanceIDs, microservice,
                   microServiceInstance, schemaIdx, rangeIdx, isRepeat, op, pre, ncalls, serviceRegistered, received>>

\* lines 154-160: the update is issued only when instance properties are configured
UpdateMicroServiceInstanceProperties(p, err) ==
    /\ pc[p] = "rmi_props"
    /\ IF ServiceDescription.InstanceProperties.nil
       THEN /\ Goto(p, "rmi_get")
            /\ UNCHANGED trace
       ELSE /\ Log(p, Event("UpdateMicroServiceInstanceProperties", sid[p],
                            instanceID[p], ~err))
            /\ LET res == UpdatePropertiesResult(err)
               IN IF res = OK THEN Goto(p, "rmi_get") ELSE Finish(p, res)
    /\ UNCHANGED <<globals, locals, op, pre, ncalls, serviceRegistered, received>>

\* the arrays still in use once the cache is c and the locals are l
InUse(c, l) == {c[k].arr : k \in DOMAIN c} \cup {l[q].arr : q \in Procs}

\* lines 162-164: instanceIDs is the slice the cache holds under the
\* descriptor's ServiceID; isRepeat starts false; the range at line 165
\* takes the slice as it is now
ReadSelfInstances(p) ==
    /\ pc[p] = "rmi_get"
    /\ Log(p, Event("CacheGet", microServiceInstance[p].ServiceID, "", TRUE))
    /\ instanceIDs' = [instanceIDs EXCEPT
                         ![p] = CacheGet(SelfInstancesCache,
                                         microServiceInstance[p].ServiceID)]
    /\ rangeIdx' = [rangeIdx EXCEPT ![p] = 1]
    /\ isRepeat' = [isRepeat EXCEPT ![p] = FALSE]
    /\ Goto(p, "rmi_loop")
    /\ UNCHANGED <<globals, sid, instanceID, microservice, microServiceInstance,
                   schemaIdx, op, pre, ncalls, serviceRegistered, received>>

\* lines 165-169, one iteration: read the element the loop has come to, as
\* the backing array holds it now, and compare it with the new ID
CompareInstanceID(p) ==
    /\ pc[p] = "rmi_loop"
    /\ rangeIdx[p] <= instanceIDs[p].len
    /\ isRepeat' = [isRepeat EXCEPT
                      ![p] = @ \/ backing[instanceIDs[p].arr][rangeIdx[p]] = instanceID[p]]
    /\ rangeIdx' = [rangeIdx EXCEPT ![p] = @ + 1]
    /\ UNCHANGED <<globals, sid, instanceID, instanceIDs, microservice,
                   microServiceInstance, schemaIdx, pc, ret, op, trace, pre, ncalls,
                   serviceRegistered, received>>

\* lines 170-172, after the loop: append the new ID unless the loop found
\* it.  Neither isRepeat nor the loop position is read again.
AppendInstanceID(p) ==
    /\ pc[p] = "rmi_loop"
    /\ rangeIdx[p] > instanceIDs[p].len
    /\ IF isRepeat[p]
       THEN UNCHANGED <<instanceIDs, backing>>
       ELSE LET r == AppendSlice(backing, instanceIDs[p], instanceID[p])
            IN /\ instanceIDs' = [instanceIDs EXCEPT ![p] = r.slice]
               /\ backing' = Collect(r.heap, InUse(SelfInstancesCache, instanceIDs'))
    /\ rangeIdx' = [rangeIdx EXCEPT ![p] = 1]
    /\ isRepeat' = [isRepeat EXCEPT ![p] = FALSE]
    /\ Goto(p, "rmi_set")
    /\ UNCHANGED <<runtimeServiceID, runtimeInstanceID, runtimeInstanceStatus,
                   configuration, microServiceDependencies, ServiceDescription,
                   SelfInstancesCache, sid, instanceID, microservice,
                   microServiceInstance, schemaIdx, op, trace, pre, ncalls,
                   serviceRegistered, received>>

\* lines 173-175: store the slice under sid and return nil
WriteSelfInstances(p) ==
    /\ pc[p] = "rmi_set"
    /\ Log(p, Event("CacheSet", sid[p], "", TRUE))
    /\ SelfInstancesCache' = CacheSet(SelfInstancesCache, sid[p], instanceIDs[p])
    /\ backing' = Collect(backing, InUse(SelfInstancesCache', instanceIDs))
    /\ received' = [k \in (DOMAIN received) \cup {sid[p]} |->
                      IF k = sid[p]
                      THEN (IF k \in DOMAIN received THEN received[k] ELSE {})
                              \cup {instanceID[p]}
                      ELSE received[k]]
    /\ Finish(p, OK)
    /\ UNCHANGED <<runtimeServiceID, runtimeInstanceID, runtimeInstanceStatus,
                   configuration, microServiceDependencies, ServiceDescription,
                   locals, op, pre, ncalls, serviceRegistered>>

\* the caller has taken the return value; the invocation's frame is gone
Return(p) ==
    /\ pc[p] = "done"
    /\ pc' = [pc EXCEPT ![p] = "idle"]
    /\ op' = [op EXCEPT ![p] = OpNone]
    /\ ret' = [ret EXCEPT ![p] = OK]
    /\ sid' = [sid EXCEPT ![p] = ""]
    /\ instanceID' = [instanceID EXCEPT ![p] = ""]
    /\ instanceIDs' = [instanceIDs EXCEPT ![p] = NilSlice]
    /\ backing' = Collect(backing, InUse(SelfInstancesCache, instanceIDs'))
    /\ microservice' = [microservice EXCEPT ![p] = NoMicroService]
    /\ microServiceInstance' = [microServiceInstance EXCEPT ![p] = NoMicroServiceInstance]
    /\ schemaIdx' = [schemaIdx EXCEPT ![p] = 1]
    /\ UNCHANGED <<rangeIdx, isRepeat>>
    /\ trace' = [trace EXCEPT ![p] = <<>>]
    /\ UNCHANGED <<runtimeServiceID, runtimeInstanceID, runtimeInstanceStatus,
                   configuration, microServiceDependencies, ServiceDescription,
                   SelfInstancesCache, pre, ncalls, serviceRegistered, received>>

(***************************************************************************)
(* Specifications                                                          *)
(***************************************************************************)
\* a step of an invocation that is under way
Step(p) ==
    \/ BuildMicroService(p)
    \/ \E a \in Answers(ServiceIDs) : RegisterService(p, a.err, a.id)
    \/ \E ok \in BOOLEAN : AddSchemas(p, ok)
    \/ ReturnRegisterMicroservice(p)
    \/ \E a \in Answers(ServiceIDs) : GetMicroServiceID(p, a.err, a.id)
    \/ BuildInstance(p)
    \/ \E a \in Answers(InstanceIDs) : RegisterServiceInstance(p, a.err, a.id)
    \/ \E err \in BOOLEAN : UpdateMicroServiceInstanceProperties(p, err)
    \/ ReadSelfInstances(p)
    \/ CompareInstanceID(p)
    \/ AppendInstanceID(p)
    \/ WriteSelfInstances(p)
    \/ Return(p)

\* a new invocation takes the first free slot; the slot is only a name for
\* the invocation and makes no difference to what it does
FirstIdle(p) == \A q \in 1..(p - 1) : pc[q] # "idle"

\* the bootstrap as it is meant to run: one invocation at a time
Next ==
    \E p \in Procs :
        \/ Quiet(p) /\ FirstIdle(p) /\ ncalls < MaxCalls /\ CallRegisterMicroservice(p)
        \/ Quiet(p) /\ FirstIdle(p) /\ ncalls < MaxCalls
              /\ CallRegisterMicroserviceInstances(p)
        \/ Step(p)

Spec == Init /\ [][Next]_vars

\* The race on the self-instance cache does not depend on what the
\* descriptors carry, so it is explored under one configuration: protocols
\* that yield an endpoint map, a datacenter, instance properties, no override.
InitConc ==
    /\ Init
    /\ InstanceEndpoints.nil
    /\ GlobalDefinition = [Protocols |-> ("rest" :> "127.0.0.1:8080"),
                           DataCenter |-> [Name |-> "dc1", Region |-> "region1",
                                           AvailableZone |-> "az1"]]
    /\ RegistratorScope = ScopeFull
    /\ ~schemaIDs.err /\ schemaIDs.ids # <<>>
    /\ ~ServiceDescription.InstanceProperties.nil
    /\ ServiceDescription.Name = "svcA"

\* no RegisterMicroservice is in progress
NoServiceRegistration == \A q \in Procs : pc[q] = "done" \/ op[q] # OpService

\* instance registrations may overlap (a retry racing a scheduled
\* re-registration); service registration still runs on its own.  The
\* unsynchronised writes of runtime.InstanceID and runtime.InstanceStatus are
\* taken as whole-value writes; nothing checked under SpecConc reads them.
NextConc ==
    \E p \in Procs :
        \/ Quiet(p) /\ ncalls < MaxCalls /\ CallRegisterMicroservice(p)
        \/ NoServiceRegistration /\ ncalls < MaxCalls
              /\ CallRegisterMicroserviceInstances(p)
        \/ Step(p)

SpecConc == InitConc /\ [][NextConc]_vars

\* Instance registrations that repeat and overlap, as on reconnect and retry:
\* one configuration, no service registration, up to MaxRegistrations
\* invocations.  A call that fails returns before it reaches the cache, so
\* every external call succeeds here.
InitRepeat ==
    /\ Init
    /\ InstanceEndpoints.nil
    /\ GlobalDefinition = [Protocols |-> ("rest" :> "127.0.0.1:8080"),
                           DataCenter |-> [Name |-> "dc1", Region |-> "region1",
                                           AvailableZone |-> "az1"]]
    /\ RegistratorScope = ScopeFull
    /\ ~schemaIDs.err /\ schemaIDs.ids # <<>>
    /\ ServiceDescription.InstanceProperties.nil
    /\ ServiceDescription.Name = "svcA"

\* the service ID discovery resolves in these runs
RepeatServiceIDs == {""}

\* the instance IDs the process holds anywhere in its state
KnownInstanceIDs ==
    ( {runtimeInstanceID}
      \cup {instanceID[p] : p \in Procs}
      \cup UNION {{backing[a][i] : i \in 1..Len(backing[a])} : a \in DOMAIN backing} )
    \ {""}

\* what the Registrator answers in these runs: the ID the process runs
\* under (the same instance registering again), or an ID the process does
\* not hold; those are all alike to the code, the first stands for them
RegistratorInstanceIDs ==
    LET unknown == {i \in 1..Len(InstanceIDPool) : InstanceIDPool[i] \notin KnownInstanceIDs}
    IN ({runtimeInstanceID} \ {""}) \cup
       {InstanceIDPool[i] : i \in {j \in unknown : \A k \in unknown : j <= k}}

NextRepeat ==
    \E p \in Procs :
        \/ ncalls < MaxRegistrations /\ CallRegisterMicroserviceInstances(p)
        \/ \E s \in RepeatServiceIDs : GetMicroServiceID(p, FALSE, s)
        \/ BuildInstance(p)
        \/ \E i \in RegistratorInstanceIDs : RegisterServiceInstance(p, FALSE, i)
        \/ UpdateMicroServiceInstanceProperties(p, FALSE)
        \/ ReadSelfInstances(p)
        \/ CompareInstanceID(p)
    \/ AppendInstanceID(p)
        \/ WriteSelfInstances(p)
        \/ Return(p)

SpecRepeat == InitRepeat /\ [][NextRepeat]_vars

\* The configurations that decide which calls an invocation makes (schema
\* lookup, protocol list, instance properties), one invocation at a time, and
\* every invocation that is under way keeps running: the code has no wait of
\* its own and every external call returns.
InitLive ==
    /\ Init
    /\ InstanceEndpoints.nil
    /\ GlobalDefinition.DataCenter = [Name |-> "dc1", Region |-> "region1",
                                      AvailableZone |-> "az1"]
    /\ RegistratorScope = ScopeFull
    /\ ServiceDescription.Name = "svcA"

SpecLive == InitLive /\ [][Next]_vars /\ \A p \in Procs : WF_vars(Step(p))

TypeOK ==
    /\ runtimeServiceID \in ServiceIDs
    /\ runtimeInstanceID \in {InstanceIDPool[i] : i \in 1..Len(InstanceIDPool)} \cup {""}
    /\ runtimeInstanceStatus \in {"", StatusRunning}
    /\ ncalls \in 0..MaxRegistrations
    /\ \A k \in DOMAIN SelfInstancesCache :
          SelfInstancesCache[k].len <= Cap(backing, SelfInstancesCache[k])
    /\ \A p \in Procs : op[p] \in {OpNone, OpService, OpInstance}

(***************************************************************************)
(* Properties                                                              *)
(***************************************************************************)
NoDuplicates(list) ==
    \A i, j \in 1..Len(list) : i # j => list[i] # list[j]

HasEvent(p, call) == \E i \in 1..Len(trace[p]) : trace[p][i].call = call
HasFailure(p) == \E i \in 1..Len(trace[p]) : ~trace[p][i].ok
\* the invocation in slot p has returned with value r
Returned(p, o, r) == pc[p] = "done" /\ op[p] = o /\ ret[p] = r
Failed(p, o) == pc[p] = "done" /\ op[p] = o /\ ret[p] # OK

\* the list stored in the cache under service ID k
CacheList(k) == Elems(backing, SelfInstancesCache[k])

\* C1: after any sequence and any interleaving of
\* RegisterMicroserviceInstances calls every list in the self-instance cache
\* holds each instance ID at most once, and two calls that returned nil,
\* resolved the same service ID and received the same instance ID (no call
\* having received another instance ID for that service ID) leave the list
\* under that service ID equal to exactly that one instance ID.
C1_NoDuplicateInstanceIDs ==
    /\ \A k \in DOMAIN SelfInstancesCache : NoDuplicates(CacheList(k))
    /\ \A p, q \in Procs :
          ( /\ p # q
            /\ Returned(p, OpInstance, OK) /\ Returned(q, OpInstance, OK)
            /\ sid[p] = sid[q] /\ instanceID[p] = instanceID[q]
            /\ received[sid[p]] = {instanceID[p]} )
          => /\ sid[p] \in DOMAIN SelfInstancesCache
             /\ CacheList(sid[p]) = <<instanceID[p]>>

\* a list stored in the cache holds one instance ID twice
C1_Witness ==
    \E k \in DOMAIN SelfInstancesCache : ~NoDuplicates(CacheList(k))

\* C2: when an earlier call has recorded instance IDs under the service ID
\* this call resolved, the write at the end of RegisterMicroserviceInstances
\* stores under that service ID the list recorded there with the new
\* instance ID appended (i1 then i2 under the same service ID gives [i1, i2]).
C2_CacheAccumulates ==
    [][\A p \in Procs :
          ( WriteSelfInstances(p) /\ sid[p] \in DOMAIN SelfInstancesCache ) =>
             CacheList(sid[p])' =
                AppendIfAbsent(CacheList(sid[p]), instanceID[p])]_vars

\* C3: when RegisterService answers no error and an empty identifier,
\* RegisterMicroservice returns the empty-service-ID error, runtime.ServiceID
\* is what it was before the call and no schema is registered.
C3_EmptyServiceIDRejected ==
    \A p \in Procs :
        ( /\ op[p] = OpService
          /\ \E i \in 1..Len(trace[p]) :
                /\ trace[p][i].call = "RegisterService"
                /\ trace[p][i].ok
                /\ trace[p][i].arg = "" )
        => /\ Returned(p, OpService, ErrEmptyServiceID)
           /\ runtimeServiceID = pre.ServiceID
           /\ ~HasEvent(p, "AddSchemas")

\* an earlier registration gave the process a service ID, and this one was
\* answered with an empty identifier
C3_Witness ==
    \E p \in Procs :
        /\ Returned(p, OpService, ErrEmptyServiceID)
        /\ pre.ServiceID # ""
        /\ trace[p][Len(trace[p])].arg = ""

\* C4: two RegisterMicroserviceInstances calls that resolved the same service
\* ID are never both between their read of the cache and their write to it.
C4_CacheSectionsExclusive ==
    \A p, q \in Procs :
        (p # q /\ sid[p] = sid[q]) =>
           ~( pc[p] \in {"rmi_loop", "rmi_set"} /\ pc[q] \in {"rmi_loop", "rmi_set"} )

\* C5 as stated: whenever either operation returns an error, the runtime
\* field it is responsible for is what it was before the call.
C5_ErrorLeavesRuntimeUnchanged ==
    \A p \in Procs :
        /\ Failed(p, OpService) => runtimeServiceID = pre.ServiceID
        /\ Failed(p, OpInstance) =>
              /\ runtimeInstanceID = pre.InstanceID
              /\ runtimeInstanceStatus = pre.InstanceStatus

\* C5 (amended): an error from RegisterMicroservice leaves runtime.ServiceID
\* unchanged; an error from discovery, the endpoint map or the instance
\* registration leaves runtime.InstanceID and runtime.InstanceStatus
\* unchanged; an error from the instance-property update is returned after
\* they were set to the instance ID just received and to running.
C5_RuntimeWrittenAfterRegistration ==
    \A p \in Procs :
        /\ Failed(p, OpService) => runtimeServiceID = pre.ServiceID
        /\ ( Failed(p, OpInstance) /\ ret[p] # ErrUpdateProperties ) =>
              /\ runtimeInstanceID = pre.InstanceID
              /\ runtimeInstanceStatus = pre.InstanceStatus
        /\ Returned(p, OpInstance, ErrUpdateProperties) =>
              /\ runtimeInstanceID = instanceID[p]
              /\ instanceID[p] \in InstanceIDs
              /\ runtimeInstanceStatus = StatusRunning

\* the property update failed and the runtime instance ID had been replaced
C5_Witness ==
    \E p \in Procs :
        /\ Returned(p, OpInstance, ErrUpdateProperties)
        /\ runtimeInstanceID # pre.InstanceID

\* C6: in RegisterMicroserviceInstances a failed step is the last thing the
\* invocation does: nothing is called after it, the cache is not written,
\* the invocation has returned a non-nil error, and after a failed discovery
\* no instance was submitted.
C6_FailureAborts ==
    \A p \in Procs :
        op[p] = OpInstance =>
           /\ \A i \in 1..Len(trace[p]) : ~trace[p][i].ok => i = Len(trace[p])
           /\ HasFailure(p) =>
                 /\ Failed(p, OpInstance)
                 /\ ~HasEvent(p, "CacheSet")
                 /\ ~HasEvent(p, "CacheGet")
           /\ (trace[p] # <<>> /\ ~trace[p][1].ok) =>
                 ~HasEvent(p, "RegisterServiceInstance")

\* the Registrator refused the instance and the invocation stopped there
C6_Witness ==
    \E p \in Procs :
        /\ Returned(p, OpInstance, ErrRegisterInstance)
        /\ Len(trace[p]) = 2
        /\ ~trace[p][2].ok

\* C7 as stated: an instance is submitted to the Registrator only after some
\* RegisterMicroservice call of this process has returned nil.
C7_ServiceRegisteredFirst ==
    \A p \in Procs : HasEvent(p, "RegisterServiceInstance") => serviceRegistered

\* C7 (amended): an instance is submitted to the Registrator only after
\* discovery has answered, in the same invocation, without error, and it is
\* submitted under the service ID discovery answered.
C7_DiscoveryFirst ==
    \A p \in Procs :
        \A i \in 1..Len(trace[p]) :
            trace[p][i].call = "RegisterServiceInstance" =>
               \E j \in 1..(i - 1) :
                   /\ trace[p][j].call = "GetMicroServiceID"
                   /\ trace[p][j].ok
                   /\ trace[p][j].arg = trace[p][i].sid

\* an instance was submitted although no RegisterMicroservice had succeeded
C7_Witness ==
    \E p \in Procs : HasEvent(p, "RegisterServiceInstance") /\ ~serviceRegistered

\* C8: with InstanceEndpoints set, an invocation that got past discovery and
\* past the endpoint stage has submitted a descriptor whose endpoint map is
\* the override, whatever the configured protocol list.
C8_OverrideAlwaysSubmitted ==
    \A p \in Procs :
        ( /\ op[p] = OpInstance
          /\ ~InstanceEndpoints.nil
          /\ trace[p] # <<>> /\ trace[p][1].ok
          /\ pc[p] \notin {"rmi_build", "rmi_register"} )
        => /\ HasEvent(p, "RegisterServiceInstance")
           /\ microServiceInstance[p].EndpointsMap = InstanceEndpoints

\* C9 as stated: scope "full" puts allowCrossApp=true, any other scope puts
\* allowCrossApp=false, into both the descriptor's metadata and the
\* configured service properties.
C9_AllowCrossAppInBoth ==
    \A p \in Procs :
        HasEvent(p, "RegisterService") =>
           LET v == IF RegistratorScope = ScopeFull THEN TRUEStr ELSE FALSEStr
           IN /\ MapHas(microservice[p].Metadata, "allowCrossApp", v)
              /\ MapHas(ServiceDescription.Properties, "allowCrossApp", v)

\* C9 (amended): scope "full" puts allowCrossApp=true into both the
\* descriptor's metadata and the configured service properties; any other
\* scope puts allowCrossApp=false into the service properties and leaves the
\* submitted descriptor's metadata without an allowCrossApp entry.
C9_AllowCrossAppPolicy ==
    \A p \in Procs :
        HasEvent(p, "RegisterService") =>
           IF RegistratorScope = ScopeFull
           THEN /\ MapHas(microservice[p].Metadata, "allowCrossApp", TRUEStr)
                /\ MapHas(ServiceDescription.Properties, "allowCrossApp", TRUEStr)
           ELSE /\ "allowCrossApp" \notin DOMAIN microservice[p].Metadata.kv
                /\ MapHas(ServiceDescription.Properties, "allowCrossApp", FALSEStr)

\* a descriptor built under a scope other than "full" was submitted
C9_Witness ==
    \E p \in Procs :
        /\ HasEvent(p, "RegisterService")
        /\ RegistratorScope # ScopeFull
        /\ MapHas(ServiceDescription.Properties, "allowCrossApp", FALSEStr)

\* C10: the instance descriptor submitted to the Registrator carries
\* DataCenterInfo exactly when the configured datacenter name and
\* availability zone are both non-empty.
C10_DataCenterInfoIff ==
    \A p \in Procs :
        HasEvent(p, "RegisterServiceInstance") =>
           ( microServiceInstance[p].DataCenterInfo.present
               <=> ( /\ GlobalDefinition.DataCenter.Name # ""
                     /\ GlobalDefinition.DataCenter.AvailableZone # "" ) )

\* a descriptor with DataCenterInfo attached was submitted
C10_Witness ==
    \E p \in Procs :
        /\ HasEvent(p, "RegisterServiceInstance")
        /\ microServiceInstance[p].DataCenterInfo.present
        /\ GlobalDefinition.DataCenter.AvailableZone # ""

\* how often the invocation in slot p has issued the call
Issued(p, call) == Cardinality({i \in 1..Len(trace[p]) : trace[p][i].call = call})
\* the schema IDs found for the service (none when the lookup fails)
Discovered == IF schemaIDs.err THEN <<>> ELSE schemaIDs.ids

\* C11: AddSchemas is called only after RegisterService answered a non-empty
\* ID, always with that ID, and a RegisterMicroservice that returned nil has
\* called it once for each discovered schema ID, in order; an invocation that
\* failed has not called it.
C11_SchemasFollowRegistration ==
    \A p \in Procs :
        op[p] = OpService =>
           /\ \A i \in 1..Len(trace[p]) :
                 trace[p][i].call = "AddSchemas" =>
                    /\ i > 1
                    /\ trace[p][1].call = "RegisterService"
                    /\ trace[p][1].ok /\ trace[p][1].arg # ""
                    /\ trace[p][i].sid = trace[p][1].arg
                    /\ i - 1 <= Len(Discovered)
                    /\ trace[p][i].arg = Discovered[i - 1]
           /\ Returned(p, OpService, OK) =>
                 /\ Len(trace[p]) = 1 + Len(Discovered)
                 /\ \A k \in 1..Len(Discovered) :
                       Cardinality({i \in 1..Len(trace[p]) :
                                       /\ trace[p][i].call = "AddSchemas"
                                       /\ trace[p][i].arg = Discovered[k]}) = 1
           /\ Failed(p, OpService) => ~HasEvent(p, "AddSchemas")

\* both schemas were registered under an ID that differs from the one the
\* descriptor was built with
C11_Witness ==
    \E p \in Procs :
        /\ Returned(p, OpService, OK)
        /\ Issued(p, "AddSchemas") = 2
        /\ trace[p][3].sid # microservice[p].ServiceID

\* C12: once RegisterService has answered a non-empty ID, runtime.ServiceID is
\* that ID, the invocation goes through every schema ID whether or not an
\* AddSchemas call fails, and it returns nil.
C12_SchemaFailuresSwallowed ==
    \A p \in Procs :
        ( /\ op[p] = OpService
          /\ trace[p] # <<>>
          /\ trace[p][1].ok /\ trace[p][1].arg # "" )
        => /\ runtimeServiceID = trace[p][1].arg
           /\ pc[p] \in {"rm_schemas", "done"}
           /\ pc[p] = "done" =>
                 /\ ret[p] = OK
                 /\ Len(trace[p]) = 1 + Len(microservice[p].Schemas)

\* the first AddSchemas failed, the second was still issued, nil was returned
C12_Witness ==
    \E p \in Procs :
        /\ Returned(p, OpService, OK)
        /\ Len(trace[p]) = 3
        /\ ~trace[p][2].ok

\* C13: the descriptor submitted by RegisterMicroservice has
\* alias = appID + ":" + serviceName, for the configured service name.
C13_AliasIsAppColonName ==
    \A p \in Procs :
        HasEvent(p, "RegisterService") =>
           /\ microservice[p].AppID = App
           /\ microservice[p].ServiceName = ServiceDescription.Name
           /\ microservice[p].Alias = App \o ":" \o ServiceDescription.Name

\* the descriptor of the service named svcB was submitted
C13_Witness ==
    \E p \in Procs :
        /\ HasEvent(p, "RegisterService")
        /\ microservice[p].Alias = "app1:svcB"

\* C14: a RegisterMicroserviceInstances that returned nil resolved sid by
\* discovery, submitted the instance once under sid, received iid, and left
\* runtime.InstanceID = iid, runtime.InstanceStatus = running and iid in the
\* cache entry under sid.
C14_SuccessPostcondition ==
    \A p \in Procs :
        Returned(p, OpInstance, OK) =>
           /\ trace[p][1].call = "GetMicroServiceID" /\ trace[p][1].ok
           /\ sid[p] = trace[p][1].arg
           /\ trace[p][2].call = "RegisterServiceInstance" /\ trace[p][2].ok
           /\ trace[p][2].sid = sid[p]
           /\ trace[p][2].arg = instanceID[p]
           /\ Issued(p, "RegisterServiceInstance") = 1
           /\ runtimeInstanceID = instanceID[p]
           /\ runtimeInstanceStatus = StatusRunning
           /\ sid[p] \in DOMAIN SelfInstancesCache
           /\ \E i \in 1..Len(CacheList(sid[p])) :
                 CacheList(sid[p])[i] = instanceID[p]

\* a registration that received i2 after an earlier one had received i1
C14_Witness ==
    \E p \in Procs :
        /\ Returned(p, OpInstance, OK)
        /\ sid[p] = "s1"
        /\ instanceID[p] = "i2"
        /\ pre.InstanceID = "i1"

\* C15: the instance-property update is issued at most once, only when
\* instance properties are configured and RegisterServiceInstance has
\* succeeded in the invocation, with the discovered service ID and the
\* instance ID just received; past that step it has been issued exactly when
\* properties are configured; when it fails the invocation returns that error
\* and does not write the cache.
C15_PropertyUpdate ==
    \A p \in Procs :
        op[p] = OpInstance =>
           /\ Issued(p, "UpdateMicroServiceInstanceProperties") <= 1
           /\ \A i \in 1..Len(trace[p]) :
                 trace[p][i].call = "UpdateMicroServiceInstanceProperties" =>
                    /\ ~ServiceDescription.InstanceProperties.nil
                    /\ i = 3
                    /\ trace[p][1].call = "GetMicroServiceID" /\ trace[p][1].ok
                    /\ trace[p][2].call = "RegisterServiceInstance" /\ trace[p][2].ok
                    /\ trace[p][i].sid = trace[p][1].arg
                    /\ trace[p][i].arg = trace[p][2].arg
                    /\ ~trace[p][i].ok =>
                          /\ Returned(p, OpInstance, ErrUpdateProperties)
                          /\ ~HasEvent(p, "CacheSet")
           /\ ( /\ Len(trace[p]) >= 2
                /\ trace[p][2].ok
                /\ pc[p] # "rmi_props" )
              => ( HasEvent(p, "UpdateMicroServiceInstanceProperties")
                      <=> ~ServiceDescription.InstanceProperties.nil )

\* the update was issued and failed
C15_Witness ==
    \E p \in Procs :
        /\ Returned(p, OpInstance, ErrUpdateProperties)
        /\ ~trace[p][3].ok
        /\ SelfInstancesCache = <<>>

\* C16: when the schema lookup fails, RegisterMicroservice still submits the
\* descriptor, with an empty schema set, calls AddSchemas never, and returns
\* what the RegisterService answer alone decides.
C16_SchemaAbsenceNotAnError ==
    \A p \in Procs :
        ( op[p] = OpService /\ schemaIDs.err ) =>
           /\ ~HasEvent(p, "AddSchemas")
           /\ pc[p] # "rm_build" => microservice[p].Schemas = <<>>
           /\ pc[p] = "done" =>
                 /\ HasEvent(p, "RegisterService")
                 /\ trace[p][1].call = "RegisterService"
                 /\ ret[p] = IF ~trace[p][1].ok THEN ErrRegisterService
                             ELSE IF trace[p][1].arg = "" THEN ErrEmptyServiceID
                             ELSE OK

\* the lookup failed and the service was registered all the same
C16_Witness ==
    \E p \in Procs :
        /\ schemaIDs.err
        /\ Returned(p, OpService, OK)
        /\ runtimeServiceID = trace[p][1].arg

\* C17: within one invocation discovery, RegisterService,
\* RegisterServiceInstance and the property update are issued at most once
\* each and AddSchemas at most once per schema ID, and every invocation that
\* is under way eventually returns.
C17_NoRetryAndTermination ==
    /\ [](\A p \in Procs :
            /\ Issued(p, "GetMicroServiceID") <= 1
            /\ Issued(p, "RegisterService") <= 1
            /\ Issued(p, "RegisterServiceInstance") <= 1
            /\ Issued(p, "UpdateMicroServiceInstanceProperties") <= 1
            /\ \A i, j \in 1..Len(trace[p]) :
                  ( /\ trace[p][i].call = "AddSchemas"
                    /\ trace[p][j].call = "AddSchemas"
                    /\ trace[p][i].arg = trace[p][j].arg ) => i = j)
    /\ \A p \in Procs : (pc[p] \notin {"idle", "done"}) ~> (pc[p] = "done")

\* an AddSchemas call failed, the next schema followed, and the invocation returned
C17_Witness ==
    \E p \in Procs :
        /\ pc[p] = "done"
        /\ op[p] = OpService
        /\ Issued(p, "AddSchemas") = 2
        /\ HasFailure(p)

\* C18: throughout and after a RegisterMicroserviceInstances call
\* runtime.ServiceID is what it was before the call; a call that returned nil
\* registered and cached the instance under the discovered service ID.
C18_RuntimeServiceIDUntouched ==
    \A p \in Procs :
        op[p] = OpInstance =>
           /\ runtimeServiceID = pre.ServiceID
           /\ Returned(p, OpInstance, OK) =>
                 /\ trace[p][2].sid = trace[p][1].arg
                 /\ trace[p][Len(trace[p])].call = "CacheSet"
                 /\ trace[p][Len(trace[p])].sid = trace[p][1].arg
                 /\ trace[p][1].arg \in DOMAIN SelfInstancesCache

\* discovery resolved an ID other than the runtime service ID
C18_Witness ==
    \E p \in Procs :
        /\ Returned(p, OpInstance, OK)
        /\ runtimeServiceID = "s1"
        /\ trace[p][1].arg = "s2"
        /\ "s1" \notin DOMAIN SelfInstancesCache

\* C19: a DataCenterInfo attached to the submitted descriptor has name and
\* region equal to the configured datacenter name and availableZone equal to
\* the configured availability zone.
C19_RegionIsDataCenterName ==
    \A p \in Procs :
        ( /\ HasEvent(p, "RegisterServiceInstance")
          /\ microServiceInstance[p].DataCenterInfo.present )
        => /\ microServiceInstance[p].DataCenterInfo.Region =
                 GlobalDefinition.DataCenter.Name
           /\ microServiceInstance[p].DataCenterInfo.Name =
                 GlobalDefinition.DataCenter.Name
           /\ microServiceInstance[p].DataCenterInfo.AvailableZone =
                 GlobalDefinition.DataCenter.AvailableZone

\* the configured region differs from what the submitted descriptor carries
C19_Witness ==
    \E p \in Procs :
        /\ HasEvent(p, "RegisterServiceInstance")
        /\ microServiceInstance[p].DataCenterInfo.present
        /\ microServiceInstance[p].DataCenterInfo.Region #
              GlobalDefinition.DataCenter.Region
====
